---- MODULE Spec2Model ----
(***************************************************************************)
(* A model of the nvenc wrapper (src/src/lib.rs): the Encoder session, its *)
(* capability queries, buffer allocation, lock/unlock, frame submission    *)
(* and teardown, together with the status mapping and the version split.   *)
(*                                                                         *)
(* The vendor runtime behind the function table is not part of the crate.  *)
(* Its behaviour is modelled from the provider contract the specification  *)
(* states (definitions whose names start with Prov): it keeps a state per  *)
(* session and per buffer, rejects calls that violate that state, may fail *)
(* a legal call, and releases a session's buffers when it is destroyed.    *)
(***************************************************************************)
EXTENDS Integers, Sequences, FiniteSets, TLC

(***************************************************************************)
(* Bounds of the model.                                                    *)
(***************************************************************************)
NumSessions == 2
MaxPtr == 2
MaxViews == 2
MaxCount == 1
MaxStatusSample == 21
MaxVersionSample == 17
StackLimit == 3

Sessions == 1..NumSessions
Ptrs == 1..MaxPtr

(***************************************************************************)
(* u32 values.  TLC's integers are 32-bit signed, so an unsigned 32-bit    *)
(* value is kept as its two 16-bit halves.                                 *)
(***************************************************************************)
Half == 2 ^ 16

U32(n) == [hi |-> n \div Half, lo |-> n % Half]

U32Max == [hi |-> Half - 1, lo |-> Half - 1]

RECURSIVE BitOr16(_, _, _)
BitOr16(a, b, bits) ==
  IF bits = 0 THEN 0
  ELSE (IF a % 2 = 1 \/ b % 2 = 1 THEN 1 ELSE 0)
       + 2 * BitOr16(a \div 2, b \div 2, bits - 1)

\* a | b on u32 values
OrU32(a, b) == [hi |-> BitOr16(a.hi, b.hi, 16), lo |-> BitOr16(a.lo, b.lo, 16)]

\* value >> 4 on a u32
Shr4(v) == [hi |-> v.hi \div 16, lo |-> (v.hi % 16) * (Half \div 16) + v.lo \div 16]

\* value & 0xf on a u32
And15(v) == [hi |-> 0, lo |-> v.lo % 16]

\* value << 4 on a u32: the bits shifted out of the top are lost
Shl4(v) == [hi |-> (v.hi * 16 + v.lo \div (Half \div 16)) % Half, lo |-> (v.lo * 16) % Half]

\* (x * y) mod 2^16 for 16-bit x and y, without leaving 31 bits
MulMod16(x, y) == (x * (y % 256) + ((x * (y \div 256)) % 256) * 256) % Half

\* the upper 16 bits of the 32-bit product of 16-bit x and y
MulCarry16(x, y) ==
  (x * (y \div 256)) \div 256
  + (((x * (y \div 256)) % 256) * 256 + x * (y % 256)) \div Half

\* a * b on u32 values in a release build: the product modulo 2^32
WrappingMul(a, b) ==
  [hi |-> (MulCarry16(a.lo, b.lo) + MulMod16(a.hi, b.lo) + MulMod16(a.lo, b.hi)) % Half,
   lo |-> MulMod16(a.lo, b.lo)]

\* a * b does not fit 32 bits (a build with overflow checks panics)
MulOverflows(a, b) ==
  IF a.hi > 0 /\ b.hi > 0 THEN TRUE
  ELSE IF a.hi = 0 /\ b.hi = 0 THEN FALSE
  ELSE LET big == IF a.hi > 0 THEN a ELSE b
           small == IF a.hi > 0 THEN b.lo ELSE a.lo
       IN small # 0 /\ (\/ big.hi > (Half - 1) \div small
                        \/ big.hi * small + MulCarry16(big.lo, small) >= Half)

(***************************************************************************)
(* _NVENCSTATUS codes named by the Error enum.                             *)
(***************************************************************************)
NV_ENC_SUCCESS == 0
NV_ENC_ERR_INVALID_ENCODERDEVICE == 3
NV_ENC_ERR_DEVICE_NOT_EXIST == 5
NV_ENC_ERR_INVALID_PTR == 6
NV_ENC_ERR_INVALID_PARAM == 8
NV_ENC_ERR_OUT_OF_MEMORY == 10
NV_ENC_ERR_UNSUPPORTED_PARAM == 12
NV_ENC_ERR_INVALID_VERSION == 15
NV_ENC_ERR_GENERIC == 20
\* codes of the provider the Error enum does not name
NV_ENC_ERR_INVALID_CALL == 9
NV_ENC_ERR_ENCODER_NOT_INITIALIZED == 11
NV_ENC_ERR_LOCK_BUSY == 13

(***************************************************************************)
(* enum Error, with its discriminants (#[repr(u32)], derive(Primitive)).   *)
(***************************************************************************)
ErrorDiscriminant ==
  [Uninitialized |-> U32(0),
   InvalidPointer |-> U32(NV_ENC_ERR_INVALID_PTR),
   InvalidEncodeDevice |-> U32(NV_ENC_ERR_INVALID_ENCODERDEVICE),
   DeviceNotExist |-> U32(NV_ENC_ERR_DEVICE_NOT_EXIST),
   UnsupportedParam |-> U32(NV_ENC_ERR_UNSUPPORTED_PARAM),
   OutOfMemory |-> U32(NV_ENC_ERR_OUT_OF_MEMORY),
   InvalidParam |-> U32(NV_ENC_ERR_INVALID_PARAM),
   InvalidVersion |-> U32(NV_ENC_ERR_INVALID_VERSION),
   Generic |-> U32(NV_ENC_ERR_GENERIC),
   Unknown |-> U32Max]

Error == DOMAIN ErrorDiscriminant

\* Error::from_u32: Some(variant) when n is a discriminant, None otherwise
FromU32(n) ==
  IF \E e \in Error : ErrorDiscriminant[e] = n
  THEN CHOOSE e \in Error : ErrorDiscriminant[e] = n
  ELSE "None"

\* a mapping that looks at the low 16 bits of the status only
MapStatusLow16(status) ==
  IF FromU32([hi |-> 0, lo |-> status.lo]) = "None" THEN "Unknown"
  ELSE FromU32([hi |-> 0, lo |-> status.lo])

\* Error::from_u32(status).unwrap_or(Error::Unknown)
MapStatus(status) ==
  IF FromU32(status) = "None" THEN "Unknown" ELSE FromU32(status)

(***************************************************************************)
(* NV_ENCODE_API_FUNCTION_LIST: the entry points the wrapper calls.  Each  *)
(* is an Option: present in the table, or absent.                          *)
(***************************************************************************)
Entries ==
  {"nvEncOpenEncodeSessionEx", "nvEncGetEncodeGUIDCount", "nvEncGetEncodeGUIDs",
   "nvEncGetEncodePresetCount", "nvEncGetEncodePresetGUIDs",
   "nvEncGetInputFormatCount", "nvEncGetInputFormats",
   "nvEncGetEncodePresetConfig", "nvEncInitializeEncoder",
   "nvEncCreateInputBuffer", "nvEncLockInputBuffer", "nvEncUnlockInputBuffer",
   "nvEncCreateBitstreamBuffer", "nvEncLockBitstream", "nvEncUnlockBitstream",
   "nvEncEncodePicture", "nvEncDestroyEncoder"}

\* the entry points of the first phase of an enumeration
CountEntries ==
  {"nvEncGetEncodeGUIDCount", "nvEncGetEncodePresetCount", "nvEncGetInputFormatCount"}

\* the tables NvEncodeAPICreateInstance may fill in: all entry points, none,
\* the open entry point alone, or open with the count entry points
Tables ==
  {Entries, {}, {"nvEncOpenEncodeSessionEx"},
   {"nvEncOpenEncodeSessionEx"} \cup CountEntries}

Success == U32(NV_ENC_SUCCESS)

(***************************************************************************)
(* api_call!: one provider call.  The record keeps what the macro did: was *)
(* the entry point invoked, with which status, and what the macro yields.  *)
(***************************************************************************)
\* a dispatch that does not look at the status the entry point returned
ApiCallIgnoresStatus(api, entry, status) ==
  IF entry \in api
  THEN [entry |-> entry, invoked |-> TRUE, status |-> status,
        kind |-> "Ok", err |-> "None"]
  ELSE [entry |-> entry, invoked |-> FALSE, status |-> Success,
        kind |-> "Err", err |-> "Uninitialized"]

ApiCall(api, entry, status) ==
  IF entry \in api
  THEN IF status # Success
       THEN [entry |-> entry, invoked |-> TRUE, status |-> status,
             kind |-> "Err", err |-> MapStatus(status)]
       ELSE [entry |-> entry, invoked |-> TRUE, status |-> status,
             kind |-> "Ok", err |-> "None"]
  ELSE [entry |-> entry, invoked |-> FALSE, status |-> Success,
        kind |-> "Err", err |-> "Uninitialized"]

\* the outcomes of one api_call!, the provider answering with a status of resp
Calls(api, entry, resp) ==
  {ApiCall(api, entry, st) : st \in (IF entry \in api THEN resp ELSE {Success})}

\* the provider ran the call and reported success
Done(c) == c.invoked /\ c.status = Success

(***************************************************************************)
(* The parameter structures an operation hands to the provider, each with  *)
(* the version constant the code writes into its version field.            *)
(***************************************************************************)
Stamped(op) ==
  CASE op = "Api::init" ->
         {[struct |-> "NV_ENCODE_API_FUNCTION_LIST",
           version |-> "NV_ENCODE_API_FUNCTION_LIST_VER"]}
    [] op = "new" ->
         {[struct |-> "NV_ENC_OPEN_ENCODE_SESSION_EX_PARAMS",
           version |-> "NV_ENC_OPEN_ENCODE_SESSION_EX_PARAMS_VER"]}
    [] op = "preset_config" ->
         {[struct |-> "NV_ENC_PRESET_CONFIG", version |-> "NV_ENC_PRESET_CONFIG_VER"],
          [struct |-> "NV_ENC_CONFIG", version |-> "NV_ENC_CONFIG_VER"]}
    [] op = "alloc_input_buffer" ->
         {[struct |-> "NV_ENC_CREATE_INPUT_BUFFER",
           version |-> "NV_ENC_CREATE_INPUT_BUFFER_VER"]}
    [] op = "input_buffer_lock" ->
         {[struct |-> "NV_ENC_LOCK_INPUT_BUFFER",
           version |-> "NV_ENC_LOCK_INPUT_BUFFER_VER"]}
    [] op = "alloc_output_buffer" ->
         {[struct |-> "NV_ENC_CREATE_BITSTREAM_BUFFER",
           version |-> "NV_ENC_CREATE_BITSTREAM_BUFFER_VER"]}
    [] op = "output_buffer_lock" ->
         {[struct |-> "NV_ENC_LOCK_BITSTREAM",
           version |-> "NV_ENC_LOCK_INPUT_BUFFER_VER"]}
    [] op = "encode" ->
         {[struct |-> "NV_ENC_PIC_PARAMS", version |-> "NV_ENC_PIC_PARAMS_VER"]}
    [] OTHER -> {}

\* the structures the provider received in the call c of the operation
Passed(c, op) == IF c.invoked THEN Stamped(op) ELSE {}

(***************************************************************************)
(* InitParamsBuilder.  A builder value is kept with the storage that is    *)
(* still alive among the objects its InitParams points to.                 *)
(***************************************************************************)
\* an InitParams value (NV_ENC_INITIALIZE_PARAMS) with every field zeroed
NoInit ==
  [version |-> "None", encodeGUID |-> "None", encodeWidth |-> 0, encodeHeight |-> 0,
   encodeConfig |-> "null"]

\* InitParamsBuilder::new
BuilderNew(encode) ==
  [init_params |-> [NoInit EXCEPT !.version = "NV_ENC_INITIALIZE_PARAMS_VER",
                                  !.encodeGUID = encode],
   live |-> {}]

\* InitParamsBuilder::width, InitParamsBuilder::height
BuilderWidth(self, width) == [self EXCEPT !.init_params.encodeWidth = width]

BuilderHeight(self, height) == [self EXCEPT !.init_params.encodeHeight = height]

\* InitParamsBuilder::preset_config: `preset` is moved into the parameter,
\* encodeConfig takes the address of its presetCfg, and the parameter's
\* storage is released when the function returns
BuilderPresetConfig(self, preset) ==
  [init_params |-> [self.init_params EXCEPT !.encodeConfig = preset],
   live |-> (self.live \cup {preset}) \ {preset}]

\* InitParamsBuilder::build
Build(self) == self

EncodeWidth == 1280
EncodeHeight == 720

\* the descriptors a caller builds: without and with a preset configuration
InitParamsInputs ==
  LET base == BuilderHeight(BuilderWidth(BuilderNew("H264"), EncodeWidth), EncodeHeight)
  IN {Build(base), Build(BuilderPresetConfig(base, "preset.presetCfg"))}

(***************************************************************************)
(* State.                                                                  *)
(***************************************************************************)
VARIABLES
  table,        \* the function table the driver hands to Api::init
  enc,          \* the caller's Encoder values: state, api (fptr), encoder (handle),
                \* and whether initialize has returned Ok on it (history)
  prov,         \* provider: state of each encode session
  pbuf,         \* provider: owner, kind and lock state of each buffer address
  inbufs,       \* InputBuffer values the caller holds
  outbufs,      \* OutputBuffer values the caller holds
  views,        \* slices returned by input_buffer_lock the caller still holds
  destroyCalls, \* how often nvEncDestroyEncoder was invoked for each session
  last          \* the last operation: its arguments, provider calls and result

vars == <<table, enc, prov, pbuf, inbufs, outbufs, views, destroyCalls, last>>

NoEncoder == [state |-> "none", api |-> {}, encoder |-> 0, initialized |-> FALSE]

FreeBuf == [owner |-> 0, kind |-> "none", locked |-> FALSE]

NoIn == [ptr |-> 0, by |-> 0, format |-> "Undefined", width |-> U32(0), height |-> U32(0)]

NoOut == [ptr |-> 0, by |-> 0]

Blank ==
  [op |-> "none", s |-> 0, calls |-> <<>>, kind |-> "None", err |-> "None",
   input |-> NoIn, output |-> NoOut, cap |-> 0, len |-> 0, val |-> FALSE,
   list |-> <<>>, status |-> U32(0), value |-> U32(0),
   major |-> U32(0), minor |-> U32(0), guid |-> "None", viewlen |-> U32(0),
   params |-> {}, init |-> NoInit, written |-> NoInit, initAfter |-> NoInit,
   cfgLive |-> TRUE, raw |-> <<>>, fmt |-> "None", count |-> 0,
   handle |-> 0]

Formats == {"NV12"}
WideDim == Half
Widths == {U32(2), U32(WideDim)}
Heights == {U32(WideDim)}
Devices == {"context", "stale"}
GUIDs == {"H264", "HEVC"}

Init ==
  /\ table \in Tables
  /\ enc = [s \in Sessions |-> NoEncoder]
  /\ prov = [s \in Sessions |-> "closed"]
  /\ pbuf = [p \in Ptrs |-> FreeBuf]
  /\ inbufs = {}
  /\ outbufs = {}
  /\ views = [s \in Sessions |-> [p \in Ptrs |-> 0]]
  /\ destroyCalls = [s \in Sessions |-> 0]
  /\ last = Blank

\* a panic or an abort ends the program
Running == last.kind \notin {"Panic", "Abort"}

Live(s) == enc[s].state = "live"

(***************************************************************************)
(* The provider (modelled from the specification's provider contract).     *)
(***************************************************************************)
\* a legal call succeeds, or fails for lack of resources
ProvAccept == {Success, U32(NV_ENC_ERR_OUT_OF_MEMORY)}

ProvStateOf(h) == IF h \in Sessions THEN prov[h] ELSE "closed"

ProvBufOf(p) == IF p \in Ptrs THEN pbuf[p] ELSE FreeBuf

ProvFree == {p \in Ptrs : pbuf[p].owner = 0}

\* NvEncodeAPICreateInstance
ProvCreateInstanceResp == {Success, U32(NV_ENC_ERR_INVALID_VERSION)}

\* nvEncOpenEncodeSessionEx: a device that is no live context is refused
ProvOpenResp(device) ==
  IF device = "context" THEN ProvAccept
  ELSE {U32(NV_ENC_ERR_INVALID_ENCODERDEVICE), U32(NV_ENC_ERR_DEVICE_NOT_EXIST)}

\* nvEncInitializeEncoder: once, on an open session
ProvInitializeResp(h) ==
  IF ProvStateOf(h) = "open" THEN ProvAccept ELSE {U32(NV_ENC_ERR_INVALID_CALL)}

\* what the provider may leave in the structure it was handed
ProvInitializeWrites(params) ==
  {params, [params EXCEPT !.encodeWidth = 0, !.encodeHeight = 0]}

\* nvEncCreateInputBuffer, nvEncCreateBitstreamBuffer: on an initialized session
ProvCreateBufferResp(h) ==
  IF ProvStateOf(h) # "init" THEN {U32(NV_ENC_ERR_ENCODER_NOT_INITIALIZED)}
  ELSE IF ProvFree = {} THEN {U32(NV_ENC_ERR_OUT_OF_MEMORY)}
  ELSE ProvAccept

\* the buffer at p is one of session h's buffers of the kind
ProvOwns(h, p, kind) ==
  /\ ProvStateOf(h) = "init"
  /\ ProvBufOf(p).owner = h
  /\ ProvBufOf(p).kind = kind

\* nvEncLockInputBuffer, nvEncLockBitstream: a buffer that is locked is refused
ProvLockResp(h, p, kind) ==
  IF ~ProvOwns(h, p, kind) THEN {U32(NV_ENC_ERR_INVALID_PARAM)}
  ELSE IF ProvBufOf(p).locked THEN {U32(NV_ENC_ERR_LOCK_BUSY)}
  ELSE ProvAccept

\* nvEncUnlockInputBuffer, nvEncUnlockBitstream: a buffer that is not locked is refused
ProvUnlockResp(h, p, kind) ==
  IF ~ProvOwns(h, p, kind) THEN {U32(NV_ENC_ERR_INVALID_PARAM)}
  ELSE IF ~ProvBufOf(p).locked THEN {U32(NV_ENC_ERR_INVALID_CALL)}
  ELSE {Success}

\* nvEncEncodePicture: both buffers of this session, the input not locked
ProvEncodeResp(h, pin, pout) ==
  IF ~ProvOwns(h, pin, "in") \/ ~ProvOwns(h, pout, "out")
  THEN {U32(NV_ENC_ERR_INVALID_PARAM)}
  ELSE IF ProvBufOf(pin).locked THEN {U32(NV_ENC_ERR_LOCK_BUSY)}
  ELSE ProvAccept

\* the enumeration and preset queries: on a session that is open
ProvQueryResp(h) ==
  IF ProvStateOf(h) \in {"open", "init"} THEN ProvAccept
  ELSE {U32(NV_ENC_ERR_INVALID_PARAM)}

\* nvEncDestroyEncoder
ProvDestroyResp(h) ==
  IF ProvStateOf(h) \in {"open", "init"} THEN {Success, U32(NV_ENC_ERR_GENERIC)}
  ELSE {U32(NV_ENC_ERR_INVALID_PARAM)}

\* destroying a session releases the buffers it owns
ProvRelease(h) ==
  [p \in Ptrs |-> IF pbuf[p].owner = h THEN FreeBuf ELSE pbuf[p]]

(***************************************************************************)
(* Encoder::new                                                            *)
(***************************************************************************)
\* the slot the next Encoder value takes
NextSlot(s) == enc[s].state = "none" /\ \A t \in Sessions : t < s => enc[t].state # "none"

\* the handle nvEncOpenEncodeSessionEx writes through &mut encoder
ProvOpenHandle(s, c) == IF Done(c) THEN s ELSE 0

\* an Encoder built from the handle as it was before the call
EncoderHandleBeforeOpen(written) == 0

\* Self { api, encoder } is evaluated after the call: it holds what the
\* provider wrote into `encoder`
EncoderHandle(written) == written

NewWith(s, instResp, openResp) ==
  /\ Running
  /\ NextSlot(s)
  /\ \E st \in instResp :
       IF st # Success
       THEN \* Api::init()? returns the error: no open-session call
            /\ last' = [Blank EXCEPT !.op = "new", !.s = s, !.kind = "Err",
                                     !.err = MapStatus(st), !.status = st,
                                     !.params = Stamped("Api::init")]
            /\ UNCHANGED <<enc, prov>>
       ELSE \E c \in Calls(table, "nvEncOpenEncodeSessionEx", openResp) :
              /\ prov' = IF Done(c) THEN [prov EXCEPT ![s] = "open"] ELSE prov
              /\ enc' = IF c.kind = "Ok"
                        THEN [enc EXCEPT ![s] = [state |-> "live", api |-> table,
                                                 encoder |-> EncoderHandle(ProvOpenHandle(s, c)),
                                                 initialized |-> FALSE]]
                        ELSE enc
              /\ last' = [Blank EXCEPT !.op = "new", !.s = s, !.calls = <<c>>,
                                       !.kind = c.kind, !.err = c.err,
                                       !.params = Stamped("Api::init") \cup Passed(c, "new"),
                                       !.handle = ProvOpenHandle(s, c)]
  /\ UNCHANGED <<table, pbuf, inbufs, outbufs, views, destroyCalls>>

New(s) == \E device \in Devices : NewWith(s, ProvCreateInstanceResp, ProvOpenResp(device))

(***************************************************************************)
(* Encoder::initialize                                                     *)
(***************************************************************************)
\* the provider was handed the caller's structure itself
AfterInitializeInPlace(init_params, written) == written

\* the caller's InitParams after the call: `let params = init_params.init_params`
\* copies the structure and the provider is handed the copy, so what it wrote
\* stays in the copy
AfterInitialize(init_params, written) == init_params

\* the configuration encodeConfig points to is no longer alive
Dangling(built) ==
  /\ built.init_params.encodeConfig # "null"
  /\ built.init_params.encodeConfig \notin built.live

\* the provider reads the configuration through encodeConfig.  Reading released
\* storage can give the old contents, anything else, or end the process.
InitializeResp(h, built) ==
  IF Dangling(built)
  THEN ProvInitializeResp(h) \cup {U32(NV_ENC_ERR_INVALID_VERSION), U32(NV_ENC_ERR_INVALID_PARAM)}
  ELSE ProvInitializeResp(h)

Initialize(s, built) ==
  /\ Running
  /\ Live(s)
  /\ \E c \in Calls(enc[s].api, "nvEncInitializeEncoder", InitializeResp(enc[s].encoder, built)) :
     \E written \in (IF c.invoked THEN ProvInitializeWrites(built.init_params)
                     ELSE {built.init_params}) :
     \E crash \in (IF c.invoked /\ Dangling(built) THEN BOOLEAN ELSE {FALSE}) :
       LET r == [Blank EXCEPT !.op = "initialize", !.s = s, !.calls = <<c>>,
                              !.kind = c.kind, !.err = c.err,
                              !.params = IF c.invoked
                                         THEN {[struct |-> "NV_ENC_INITIALIZE_PARAMS",
                                                version |-> built.init_params.version]}
                                         ELSE {},
                              !.init = built.init_params,
                              !.written = written,
                              !.initAfter = AfterInitialize(built.init_params, written),
                              !.cfgLive = ~Dangling(built)]
       IN IF crash
          THEN /\ last' = [r EXCEPT !.kind = "Abort", !.err = "None"]
               /\ UNCHANGED <<prov, enc>>
          ELSE /\ prov' = IF Done(c) THEN [prov EXCEPT ![enc[s].encoder] = "init"] ELSE prov
               /\ enc' = IF c.kind = "Ok" THEN [enc EXCEPT ![s].initialized = TRUE] ELSE enc
               /\ last' = r
  /\ UNCHANGED <<table, pbuf, inbufs, outbufs, views, destroyCalls>>

(***************************************************************************)
(* Encoder::alloc_input_buffer, Encoder::alloc_output_buffer               *)
(***************************************************************************)
\* the address the provider writes into the parameter structure, or none.
\* Addresses are interchangeable: the provider takes the lowest free one.
Created(c) == IF Done(c) THEN {p \in ProvFree : \A q \in ProvFree : p <= q} ELSE {0}

AllocInputBuffer(s, width, height, format) ==
  /\ Running
  /\ Live(s)
  /\ \E c \in Calls(enc[s].api, "nvEncCreateInputBuffer", ProvCreateBufferResp(enc[s].encoder)) :
     \E p \in Created(c) :
       LET b == [ptr |-> p, by |-> s, format |-> format, width |-> width, height |-> height] IN
       /\ pbuf' = IF Done(c)
                  THEN [pbuf EXCEPT ![p] = [owner |-> enc[s].encoder, kind |-> "in", locked |-> FALSE]]
                  ELSE pbuf
       /\ inbufs' = IF c.kind = "Ok" THEN inbufs \cup {b} ELSE inbufs
       /\ last' = [Blank EXCEPT !.op = "alloc_input_buffer", !.s = s, !.calls = <<c>>,
                                !.kind = c.kind, !.err = c.err,
                                !.input = IF c.kind = "Ok" THEN b ELSE NoIn,
                                !.params = Passed(c, "alloc_input_buffer")]
  /\ UNCHANGED <<table, enc, prov, outbufs, views, destroyCalls>>

AllocOutputBuffer(s) ==
  /\ Running
  /\ Live(s)
  /\ \E c \in Calls(enc[s].api, "nvEncCreateBitstreamBuffer", ProvCreateBufferResp(enc[s].encoder)) :
     \E p \in Created(c) :
       LET b == [ptr |-> p, by |-> s] IN
       /\ pbuf' = IF Done(c)
                  THEN [pbuf EXCEPT ![p] = [owner |-> enc[s].encoder, kind |-> "out", locked |-> FALSE]]
                  ELSE pbuf
       /\ outbufs' = IF c.kind = "Ok" THEN outbufs \cup {b} ELSE outbufs
       /\ last' = [Blank EXCEPT !.op = "alloc_output_buffer", !.s = s, !.calls = <<c>>,
                                !.kind = c.kind, !.err = c.err,
                                !.output = IF c.kind = "Ok" THEN b ELSE NoOut,
                                !.params = Passed(c, "alloc_output_buffer")]
  /\ UNCHANGED <<table, enc, prov, inbufs, views, destroyCalls>>

(***************************************************************************)
(* Encoder::input_buffer_lock, Encoder::input_buffer_unlock                *)
(***************************************************************************)
RECURSIVE Sum(_, _)
Sum(f, S) == IF S = {} THEN 0 ELSE LET x == CHOOSE y \in S : TRUE IN f[x] + Sum(f, S \ {x})

\* the number of slices the caller holds
HeldViews == Sum([sp \in Sessions \X Ptrs |-> views[sp[1]][sp[2]]], Sessions \X Ptrs)

\* the length of the slice input_buffer_lock builds: buffer.width * buffer.height
\* in u32.  A product that does not fit wraps, or panics where overflow checks
\* are compiled in.
ViewLen(buffer) ==
  IF MulOverflows(buffer.width, buffer.height)
  THEN {[kind |-> "Ok", len |-> WrappingMul(buffer.width, buffer.height)],
        [kind |-> "Panic", len |-> U32(0)]}
  ELSE {[kind |-> "Ok", len |-> WrappingMul(buffer.width, buffer.height)]}

InputBufferLock(s, buffer) ==
  /\ Running
  /\ Live(s)
  /\ buffer \in inbufs
  /\ \E c \in Calls(enc[s].api, "nvEncLockInputBuffer",
                    ProvLockResp(enc[s].encoder, buffer.ptr, "in")) :
     \E v \in (IF c.kind = "Ok" THEN ViewLen(buffer) ELSE {[kind |-> c.kind, len |-> U32(0)]}) :
       /\ v.kind = "Ok" => HeldViews < MaxViews
       /\ pbuf' = IF Done(c) THEN [pbuf EXCEPT ![buffer.ptr].locked = TRUE] ELSE pbuf
       /\ views' = IF v.kind = "Ok"
                   THEN [views EXCEPT ![s][buffer.ptr] = @ + 1]
                   ELSE views
       /\ last' = [Blank EXCEPT !.op = "input_buffer_lock", !.s = s, !.calls = <<c>>,
                                !.kind = v.kind, !.err = c.err, !.input = buffer,
                                !.viewlen = v.len,
                                !.params = Passed(c, "input_buffer_lock")]
  /\ UNCHANGED <<table, enc, prov, inbufs, outbufs, destroyCalls>>

InputBufferUnlock(s, buffer) ==
  /\ Running
  /\ Live(s)
  /\ buffer \in inbufs
  /\ \E c \in Calls(enc[s].api, "nvEncUnlockInputBuffer",
                    ProvUnlockResp(enc[s].encoder, buffer.ptr, "in")) :
       /\ pbuf' = IF Done(c) THEN [pbuf EXCEPT ![buffer.ptr].locked = FALSE] ELSE pbuf
       /\ last' = [Blank EXCEPT !.op = "input_buffer_unlock", !.s = s, !.calls = <<c>>,
                                !.kind = c.kind, !.err = c.err, !.input = buffer]
  /\ UNCHANGED <<table, enc, prov, inbufs, outbufs, views, destroyCalls>>

\* the caller lets go of a slice it got from input_buffer_lock (the borrow ends)
ReleaseView(s, p) ==
  /\ Running
  /\ views[s][p] > 0
  /\ views' = [views EXCEPT ![s][p] = @ - 1]
  /\ last' = [Blank EXCEPT !.op = "release_view", !.s = s]
  /\ UNCHANGED <<table, enc, prov, pbuf, inbufs, outbufs, destroyCalls>>

(***************************************************************************)
(* Encoder::output_buffer_lock, Encoder::output_buffer_unlock: both take   *)
(* a &InputBuffer and hand its ptr to the bitstream entry points.          *)
(***************************************************************************)
OutputBufferLock(s, buffer) ==
  /\ Running
  /\ Live(s)
  /\ buffer \in inbufs
  /\ \E c \in Calls(enc[s].api, "nvEncLockBitstream",
                    ProvLockResp(enc[s].encoder, buffer.ptr, "out")) :
       /\ pbuf' = IF Done(c) THEN [pbuf EXCEPT ![buffer.ptr].locked = TRUE] ELSE pbuf
       /\ last' = [Blank EXCEPT !.op = "output_buffer_lock", !.s = s, !.calls = <<c>>,
                                !.kind = c.kind, !.err = c.err, !.input = buffer,
                                !.params = Passed(c, "output_buffer_lock")]
  /\ UNCHANGED <<table, enc, prov, inbufs, outbufs, views, destroyCalls>>

OutputBufferUnlock(s, buffer) ==
  /\ Running
  /\ Live(s)
  /\ buffer \in inbufs
  /\ \E c \in Calls(enc[s].api, "nvEncUnlockBitstream",
                    ProvUnlockResp(enc[s].encoder, buffer.ptr, "out")) :
       /\ pbuf' = IF Done(c) THEN [pbuf EXCEPT ![buffer.ptr].locked = FALSE] ELSE pbuf
       /\ last' = [Blank EXCEPT !.op = "output_buffer_unlock", !.s = s, !.calls = <<c>>,
                                !.kind = c.kind, !.err = c.err, !.input = buffer]
  /\ UNCHANGED <<table, enc, prov, inbufs, outbufs, views, destroyCalls>>

(***************************************************************************)
(* Encoder::encode: takes both buffers by value; they are gone afterwards, *)
(* whatever the result.                                                    *)
(***************************************************************************)
Encode(s, input, output) ==
  /\ Running
  /\ Live(s)
  /\ input \in inbufs
  /\ output \in outbufs
  /\ \E c \in Calls(enc[s].api, "nvEncEncodePicture",
                    ProvEncodeResp(enc[s].encoder, input.ptr, output.ptr)) :
       last' = [Blank EXCEPT !.op = "encode", !.s = s, !.calls = <<c>>,
                             !.kind = c.kind, !.err = c.err,
                             !.input = input, !.output = output,
                             !.params = Passed(c, "encode")]
  /\ inbufs' = inbufs \ {input}
  /\ outbufs' = outbufs \ {output}
  /\ UNCHANGED <<table, enc, prov, pbuf, views, destroyCalls>>

(***************************************************************************)
(* impl Display for Error, impl Drop for Encoder                           *)
(***************************************************************************)
\* Error's fmt writes "... {}" with self as the argument, which formats self
\* again: every call makes one more, until the stack is used up
RECURSIVE DisplayFmt(_, _)
DisplayFmt(err, depth) ==
  IF depth >= StackLimit THEN "StackOverflow" ELSE DisplayFmt(err, depth + 1)

\* error!("failed to destroy the encoder: {}", err): formats err when the
\* error level is enabled
LogError(err, enabled) ==
  IF enabled THEN DisplayFmt(err, 0) ELSE "Skipped"

Drop(s) ==
  /\ Running
  /\ Live(s)
  /\ \A p \in Ptrs : views[s][p] = 0   \* a slice borrows the Encoder
  /\ \E c \in Calls(enc[s].api, "nvEncDestroyEncoder", ProvDestroyResp(enc[s].encoder)) :
     \E enabled \in BOOLEAN :
       /\ prov' = IF Done(c) THEN [prov EXCEPT ![enc[s].encoder] = "destroyed"] ELSE prov
       /\ pbuf' = IF Done(c) THEN ProvRelease(enc[s].encoder) ELSE pbuf
       /\ destroyCalls' = IF c.invoked THEN [destroyCalls EXCEPT ![s] = @ + 1]
                          ELSE destroyCalls
       /\ last' = [Blank EXCEPT !.op = "drop", !.s = s, !.calls = <<c>>,
                     !.kind = IF c.kind = "Ok" THEN "Ok"
                              ELSE IF LogError(c.err, enabled) = "StackOverflow"
                                   THEN "Abort" ELSE "Ok",
                     !.err = c.err,
                     !.fmt = IF c.kind = "Ok" THEN "None" ELSE LogError(c.err, enabled)]
  /\ enc' = [enc EXCEPT ![s].state = "dropped"]
  /\ UNCHANGED <<table, inbufs, outbufs, views>>

(***************************************************************************)
(* enum BufferFormat, with its discriminants                               *)
(***************************************************************************)
BufferFormatDiscriminant ==
  [Undefined |-> U32(0), NV12 |-> U32(1), YV12 |-> U32(16), IYUV |-> U32(256),
   YUV444 |-> U32(4096), YUV420_10Bit |-> U32(65536), YUV444_10Bit |-> U32(1048576),
   ARGB |-> U32(16777216), ARGB10 |-> U32(33554432), AYUV |-> U32(67108864),
   ABGR |-> U32(268435456), ABGR10 |-> U32(536870912), U8 |-> U32(1073741824)]

BufferFormat == DOMAIN BufferFormatDiscriminant

\* a mapping that looks at the low 16 bits of the integer only
MapFormatLow16(f) ==
  IF \E v \in BufferFormat : BufferFormatDiscriminant[v] = [hi |-> 0, lo |-> f.lo]
  THEN CHOOSE v \in BufferFormat : BufferFormatDiscriminant[v] = [hi |-> 0, lo |-> f.lo]
  ELSE "Undefined"

\* BufferFormat::from_u32(f).unwrap_or(BufferFormat::Undefined)
MapFormat(f) ==
  IF \E v \in BufferFormat : BufferFormatDiscriminant[v] = f
  THEN CHOOSE v \in BufferFormat : BufferFormatDiscriminant[v] = f
  ELSE "Undefined"

(***************************************************************************)
(* The two-phase queries: support_codec, supported_presets,                *)
(* supported_formats.  The provider reports a count, then fills a buffer   *)
(* of that capacity and reports how many entries it returned.              *)
(***************************************************************************)
\* the count the provider writes in phase one (the wrapper's 0 when it wrote nothing)
ProvCounts(c) == IF Done(c) THEN 0..MaxCount ELSE {0}

\* the number it reports in phase two; one more than the capacity breaks its contract
ProvReturned(c, count) == IF Done(c) THEN 0..(count + 1) ELSE {0}

Min(a, b) == IF a <= b THEN a ELSE b

\* what the provider wrote into the buffer: at most its capacity
ProvFilled(S, count, returned) == [1..Min(count, returned) -> S]

\* the integers the provider may list as input formats: the code of every
\* variant, and integers that are the code of none
ProvFormats ==
  {BufferFormatDiscriminant[v] : v \in BufferFormat}
  \cup {U32(2), [hi |-> 1, lo |-> 1], [hi |-> Half \div 2, lo |-> 0], U32Max}

\* a capacity one larger than the count
CapacityPlusOne(count) == count + 1

\* the capacity of the vector and the capacity passed to the fetch call: both
\* are the `count` the count call wrote
Capacity(count) == count

\* the result of a query that failed in the call c, the last of calls
QueryFailed(op, s, calls, c, count) ==
  [Blank EXCEPT !.op = op, !.s = s, !.calls = calls, !.kind = c.kind, !.err = c.err,
                !.count = count,
                !.cap = IF Len(calls) = 2 THEN Capacity(count) ELSE 0]

\* a search that stops one element early
SupportCodecSkipsLast(guid, filled, count, returned) ==
  IF returned <= count
  THEN {[kind |-> "Ok", val |-> \E i \in 1..(returned - 1) : filled[i] = guid]}
  ELSE {[kind |-> "Ok", val |-> TRUE], [kind |-> "Ok", val |-> FALSE],
        [kind |-> "Abort", val |-> FALSE]}

\* support_codec after both calls: guids.set_len(returned), then the search.
\* With returned > count the vector's length exceeds its capacity and the loop
\* reads what the provider never wrote: any answer, or a crash.
SupportCodecResults(guid, filled, count, returned) ==
  IF returned <= count
  THEN {[kind |-> "Ok", val |-> \E i \in 1..returned : filled[i] = guid]}
  ELSE {[kind |-> "Ok", val |-> TRUE], [kind |-> "Ok", val |-> FALSE],
        [kind |-> "Abort", val |-> FALSE]}

SupportCodec(s, guid) ==
  /\ Running
  /\ Live(s)
  /\ \E c1 \in Calls(enc[s].api, "nvEncGetEncodeGUIDCount", ProvQueryResp(enc[s].encoder)) :
       IF c1.kind # "Ok"
       THEN last' = QueryFailed("support_codec", s, <<c1>>, c1, 0)
       ELSE \E count \in ProvCounts(c1) :
            \E c2 \in Calls(enc[s].api, "nvEncGetEncodeGUIDs", ProvQueryResp(enc[s].encoder)) :
              IF c2.kind # "Ok"
              THEN last' = QueryFailed("support_codec", s, <<c1, c2>>, c2, count)
              ELSE \E returned \in ProvReturned(c2, Capacity(count)) :
                   \E filled \in ProvFilled(GUIDs, Capacity(count), returned) :
                   \E r \in SupportCodecResults(guid, filled, Capacity(count), returned) :
                     last' = [Blank EXCEPT !.op = "support_codec", !.s = s,
                                !.calls = <<c1, c2>>, !.kind = r.kind, !.val = r.val,
                                !.count = count, !.cap = Capacity(count),
                                !.len = returned, !.list = filled, !.guid = guid]
  /\ UNCHANGED <<table, enc, prov, pbuf, inbufs, outbufs, views, destroyCalls>>

\* supported_presets and supported_formats after both calls:
\* assert!(returned <= count), then set_len(returned)
CheckedList(op, s, calls, filled, count, returned) ==
  IF returned <= count
  THEN [Blank EXCEPT !.op = op, !.s = s, !.calls = calls, !.kind = "Ok",
                     !.count = count, !.cap = Capacity(count), !.len = returned,
                     !.list = filled]
  ELSE [Blank EXCEPT !.op = op, !.s = s, !.calls = calls, !.kind = "Panic",
                     !.count = count, !.cap = Capacity(count)]

SupportedPresets(s, encode) ==
  /\ Running
  /\ Live(s)
  /\ \E c1 \in Calls(enc[s].api, "nvEncGetEncodePresetCount", ProvQueryResp(enc[s].encoder)) :
       IF c1.kind # "Ok"
       THEN last' = QueryFailed("supported_presets", s, <<c1>>, c1, 0)
       ELSE \E count \in ProvCounts(c1) :
            \E c2 \in Calls(enc[s].api, "nvEncGetEncodePresetGUIDs", ProvQueryResp(enc[s].encoder)) :
              IF c2.kind # "Ok"
              THEN last' = QueryFailed("supported_presets", s, <<c1, c2>>, c2, count)
              ELSE \E returned \in ProvReturned(c2, Capacity(count)) :
                   \E filled \in ProvFilled(GUIDs, Capacity(count), returned) :
                     last' = CheckedList("supported_presets", s, <<c1, c2>>,
                                         filled, count, returned)
  /\ UNCHANGED <<table, enc, prov, pbuf, inbufs, outbufs, views, destroyCalls>>

SupportedFormats(s, encode) ==
  /\ Running
  /\ Live(s)
  /\ \E c1 \in Calls(enc[s].api, "nvEncGetInputFormatCount", ProvQueryResp(enc[s].encoder)) :
       IF c1.kind # "Ok"
       THEN last' = QueryFailed("supported_formats", s, <<c1>>, c1, 0)
       ELSE \E count \in ProvCounts(c1) :
            \E c2 \in Calls(enc[s].api, "nvEncGetInputFormats", ProvQueryResp(enc[s].encoder)) :
              IF c2.kind # "Ok"
              THEN last' = QueryFailed("supported_formats", s, <<c1, c2>>, c2, count)
              ELSE \E returned \in ProvReturned(c2, Capacity(count)) :
                   \E filled \in ProvFilled(ProvFormats, Capacity(count), returned) :
                     last' = [CheckedList("supported_formats", s, <<c1, c2>>,
                                          [i \in DOMAIN filled |-> MapFormat(filled[i])],
                                          count, returned)
                              EXCEPT !.raw = filled]
  /\ UNCHANGED <<table, enc, prov, pbuf, inbufs, outbufs, views, destroyCalls>>

(***************************************************************************)
(* Encoder::preset_config, Api::init, max_version_supported                *)
(***************************************************************************)
\* statuses the provider may report: the low codes, and values that use the
\* high bits of the 32
StatusSamples ==
  {U32(n) : n \in 0..MaxStatusSample}
  \cup {U32Max, [hi |-> 1, lo |-> NV_ENC_ERR_INVALID_PTR], [hi |-> Half - 1, lo |-> 0]}

\* versions the provider may report
VersionSamples ==
  {U32(n) : n \in 0..MaxVersionSample}
  \cup {[hi |-> Half - 1 - n, lo |-> Half - 1 - 15 * n] : n \in 0..MaxVersionSample}

ProvPresetConfigResp(h) ==
  IF ProvStateOf(h) \in {"open", "init"} THEN StatusSamples
  ELSE {U32(NV_ENC_ERR_INVALID_PARAM)}

PresetConfig(s, encode, preset) ==
  /\ Running
  /\ Live(s)
  /\ \E c \in Calls(enc[s].api, "nvEncGetEncodePresetConfig", ProvPresetConfigResp(enc[s].encoder)) :
       last' = [Blank EXCEPT !.op = "preset_config", !.s = s, !.calls = <<c>>,
                             !.kind = c.kind, !.err = c.err,
                             !.params = Passed(c, "preset_config")]
  /\ UNCHANGED <<table, enc, prov, pbuf, inbufs, outbufs, views, destroyCalls>>

ApiInit ==
  /\ Running
  /\ \E st \in StatusSamples :
       last' = IF st = Success
               THEN [Blank EXCEPT !.op = "Api::init", !.kind = "Ok", !.status = st,
                                  !.params = Stamped("Api::init")]
               ELSE [Blank EXCEPT !.op = "Api::init", !.kind = "Err", !.status = st,
                                  !.err = MapStatus(st), !.params = Stamped("Api::init")]
  /\ UNCHANGED <<table, enc, prov, pbuf, inbufs, outbufs, views, destroyCalls>>

\* the split with the two halves exchanged
VersionSwapped(value) == [major |-> And15(value), minor |-> Shr4(value)]

\* Version { major: value >> 4, minor: value & 0xf }
Version(value) == [major |-> Shr4(value), minor |-> And15(value)]

MaxVersionSupported ==
  /\ Running
  /\ \E st \in StatusSamples :
       IF st = Success
       THEN \E value \in VersionSamples :
              last' = [Blank EXCEPT !.op = "max_version_supported", !.kind = "Ok",
                                    !.status = st, !.value = value,
                                    !.major = Version(value).major,
                                    !.minor = Version(value).minor]
       ELSE last' = [Blank EXCEPT !.op = "max_version_supported", !.kind = "Err",
                                  !.status = st, !.err = MapStatus(st)]
  /\ UNCHANGED <<table, enc, prov, pbuf, inbufs, outbufs, views, destroyCalls>>

\* the operations on the Encoders of S that open, initialize and destroy
\* sessions and that create, lock and consume buffers, the input buffers
\* having a width of W
SessionOps(S, W) ==
  \/ \E s \in S : New(s)
  \/ \E s \in S, built \in InitParamsInputs : Initialize(s, built)
  \/ \E s \in S, w \in W, h \in Heights, f \in Formats : AllocInputBuffer(s, w, h, f)
  \/ \E s \in S : AllocOutputBuffer(s)
  \/ \E s \in S, b \in inbufs : InputBufferLock(s, b)
  \/ \E s \in S, b \in inbufs : InputBufferUnlock(s, b)
  \/ \E s \in S, p \in Ptrs : ReleaseView(s, p)
  \/ \E s \in S, b \in inbufs : OutputBufferLock(s, b)
  \/ \E s \in S, b \in inbufs : OutputBufferUnlock(s, b)
  \/ \E s \in S, i \in inbufs, o \in outbufs : Encode(s, i, o)
  \/ \E s \in S : Drop(s)

\* the queries on the Encoders of S, which change no state of the session
Queries(S) ==
  \/ \E s \in S, guid \in GUIDs : SupportCodec(s, guid)
  \/ \E s \in S, encode \in GUIDs : SupportedPresets(s, encode)
  \/ \E s \in S, encode \in GUIDs : SupportedFormats(s, encode)
  \/ \E s \in S, encode \in GUIDs, preset \in GUIDs : PresetConfig(s, encode, preset)

\* several Encoders and their buffers, of one size
Next == SessionOps(Sessions, {U32(2)})

Spec == Init /\ [][Next]_vars

\* one Encoder and its buffers
NextEncoder == SessionOps({1}, Widths)

SpecEncoder == Init /\ [][NextEncoder]_vars

\* one Encoder and its queries, and the free functions
NextQuery ==
  \/ New(1)
  \/ \E built \in InitParamsInputs : Initialize(1, built)
  \/ Queries({1})
  \/ ApiInit
  \/ MaxVersionSupported
  \/ Drop(1)

SpecQuery == Init /\ [][NextQuery]_vars

(***************************************************************************)
(* Properties.                                                             *)
(***************************************************************************)
AllocOps == {"alloc_input_buffer", "alloc_output_buffer"}

\* C1: a buffer allocation on a session on which initialize has not returned
\* Ok fails with an Error, and every buffer the caller holds was allocated
\* from a session on which initialize had returned Ok.
C1_NoAllocBeforeInitialize ==
  /\ (last.op \in AllocOps /\ ~enc[last.s].initialized) => last.kind = "Err"
  /\ \A b \in inbufs : enc[b.by].initialized
  /\ \A b \in outbufs : enc[b.by].initialized

\* an allocation was tried on an opened, not initialized session, reached the
\* provider and came back as an Error
C1_Witness ==
  /\ last.op \in AllocOps
  /\ Live(last.s)
  /\ ~enc[last.s].initialized
  /\ last.calls[1].invoked
  /\ last.kind = "Err"

\* C2: encode never succeeds with an InputBuffer or OutputBuffer that was
\* allocated from another session than the one it is called on.
C2_EncodeOwnBuffersOnly ==
  (last.op = "encode" /\ last.kind = "Ok")
    => (last.input.by = last.s /\ last.output.by = last.s)

\* C3: no two slices obtained from successful input_buffer_lock calls on the
\* same buffer exist at the same time.
C3_OneViewPerBuffer ==
  \A p \in Ptrs : Sum([s \in Sessions |-> views[s][p]], Sessions) <= 1

QueryNames == {"support_codec", "supported_presets", "supported_formats"}

\* C4: a two-phase query never panics or crashes, and the number of elements
\* it treats as valid is at most the capacity it got from the count call.
C4_TwoPhaseConsistency ==
  last.op \in QueryNames
    => (last.kind \in {"Ok", "Err"} /\ last.len <= last.cap)

\* C5: for an opened session whose table holds the destroy entry point, the
\* entry point is not invoked before the drop and has been invoked exactly
\* once after it, and the drop completes normally whatever status it returned.
C5_DestroyOnceAndDropCompletes ==
  /\ \A s \in Sessions :
       "nvEncDestroyEncoder" \in enc[s].api =>
         /\ enc[s].state = "live" => destroyCalls[s] = 0
         /\ enc[s].state = "dropped" => destroyCalls[s] = 1
  /\ (last.op = "drop" /\ last.calls[1].invoked /\ last.calls[1].status # Success)
       => last.kind = "Ok"

\* C6: after encode returns Ok, the InputBuffer and the OutputBuffer passed
\* to it are still available to the caller for the next frame.
C6_BuffersAvailableAfterEncode ==
  (last.op = "encode" /\ last.kind = "Ok")
    => (last.input \in inbufs /\ last.output \in outbufs)

\* C7: every InputBuffer or OutputBuffer the caller holds was allocated from
\* a session that has not been destroyed.
C7_BuffersWithinSession ==
  /\ \A b \in inbufs : enc[b.by].state = "live"
  /\ \A b \in outbufs : enc[b.by].state = "live"

\* the variant the claim gives for a status
ExpectedError(status) ==
  CASE status = U32(NV_ENC_ERR_INVALID_PTR) -> "InvalidPointer"
    [] status = U32(NV_ENC_ERR_INVALID_ENCODERDEVICE) -> "InvalidEncodeDevice"
    [] status = U32(NV_ENC_ERR_DEVICE_NOT_EXIST) -> "DeviceNotExist"
    [] status = U32(NV_ENC_ERR_UNSUPPORTED_PARAM) -> "UnsupportedParam"
    [] status = U32(NV_ENC_ERR_OUT_OF_MEMORY) -> "OutOfMemory"
    [] status = U32(NV_ENC_ERR_INVALID_PARAM) -> "InvalidParam"
    [] status = U32(NV_ENC_ERR_INVALID_VERSION) -> "InvalidVersion"
    [] status = U32(NV_ENC_ERR_GENERIC) -> "Generic"
    [] OTHER -> "Unknown"

\* one provider call follows the dispatch rule
RuleHolds(api, c) ==
  IF c.entry \in api
  THEN /\ c.invoked
       /\ c.kind = "Ok" <=> c.status = Success
       /\ c.status # Success => (c.kind = "Err" /\ c.err = ExpectedError(c.status))
  ELSE ~c.invoked /\ c.kind = "Err" /\ c.err = "Uninitialized"

\* C8: every provider call of an Encoder operation follows the dispatch rule,
\* and the operation returns the Err of the call that failed, and Ok when
\* every call it made reported success.
C8_DispatchRule ==
  (last.calls # <<>>) =>
    LET n == Len(last.calls) IN
    /\ \A i \in 1..n : RuleHolds(IF last.op = "new" THEN table ELSE enc[last.s].api,
                                  last.calls[i])
    /\ \A i \in 1..(n - 1) : last.calls[i].kind = "Ok"
    /\ last.op # "drop" =>
         /\ last.calls[n].kind = "Err"
              => (last.kind = "Err" /\ last.err = last.calls[n].err)
         /\ last.calls[n].kind = "Ok" => last.kind = "Ok"

\* C9: every non-success status maps to the variant of its code when it is
\* one of the eight known codes, and to Unknown otherwise.
C9_StatusMappingTotal ==
  /\ \A i \in 1..Len(last.calls) :
       (last.calls[i].invoked /\ last.calls[i].status # Success)
         => last.calls[i].err = ExpectedError(last.calls[i].status)
  /\ (last.op \in {"Api::init", "max_version_supported"} /\ last.status # Success)
       => (last.kind = "Err" /\ last.err = ExpectedError(last.status))

\* a status that uses the high bits was mapped, and a known code was
C9_Witness ==
  \/ /\ last.op = "preset_config"
     /\ last.calls[1].status.hi > 0
     /\ last.err = "Unknown"
  \/ /\ last.op = "Api::init"
     /\ last.status = U32(NV_ENC_ERR_INVALID_VERSION)
     /\ last.err = "InvalidVersion"

\* C10: the (major, minor) pair of max_version_supported, packed again as
\* (major << 4) | minor, is the value the provider returned, and minor < 16.
C10_VersionRoundTrip ==
  (last.op = "max_version_supported" /\ last.kind = "Ok")
    => /\ OrU32(Shl4(last.major), last.minor) = last.value
       /\ last.minor.hi = 0
       /\ last.minor.lo < 16

\* a version with bits in the high half and a minor that is not 0 was split
C10_Witness ==
  /\ last.op = "max_version_supported"
  /\ last.kind = "Ok"
  /\ last.value.hi >= Half \div 2
  /\ last.minor.lo > 0

\* C11: when both provider calls of support_codec succeed and returned <= count,
\* the result is Ok(true) exactly when guid is one of the first `returned`
\* GUIDs the provider filled in, and Ok(false) otherwise (also for an empty list).
C11_SupportCodecMembership ==
  (/\ last.op = "support_codec"
   /\ Len(last.calls) = 2
   /\ Done(last.calls[2])
   /\ last.len <= last.cap)
    => /\ last.kind = "Ok"
       /\ last.val <=> (\E i \in 1..last.len : last.list[i] = last.guid)

\* the provider listed a codec, another one was asked for, and the answer is false
C11_Witness ==
  /\ last.op = "support_codec"
  /\ last.kind = "Ok"
  /\ last.len = 1
  /\ last.len <= last.cap
  /\ last.list[1] # last.guid
  /\ ~last.val

\* C12: a successful lock of an InputBuffer yields a view of exactly
\* width * height elements, for the width and height stored at allocation:
\* the product is not reduced modulo 2^32 and the call does not panic.
C12_ViewLength ==
  (last.op = "input_buffer_lock" /\ Done(last.calls[1]))
    => /\ last.kind = "Ok"
       /\ ~MulOverflows(last.input.width, last.input.height)
       /\ last.viewlen = WrappingMul(last.input.width, last.input.height)

\* the version constant that belongs to each parameter structure
VersionOf ==
  [NV_ENCODE_API_FUNCTION_LIST |-> "NV_ENCODE_API_FUNCTION_LIST_VER",
   NV_ENC_OPEN_ENCODE_SESSION_EX_PARAMS |-> "NV_ENC_OPEN_ENCODE_SESSION_EX_PARAMS_VER",
   NV_ENC_PRESET_CONFIG |-> "NV_ENC_PRESET_CONFIG_VER",
   NV_ENC_CONFIG |-> "NV_ENC_CONFIG_VER",
   NV_ENC_INITIALIZE_PARAMS |-> "NV_ENC_INITIALIZE_PARAMS_VER",
   NV_ENC_CREATE_INPUT_BUFFER |-> "NV_ENC_CREATE_INPUT_BUFFER_VER",
   NV_ENC_LOCK_INPUT_BUFFER |-> "NV_ENC_LOCK_INPUT_BUFFER_VER",
   NV_ENC_CREATE_BITSTREAM_BUFFER |-> "NV_ENC_CREATE_BITSTREAM_BUFFER_VER",
   NV_ENC_LOCK_BITSTREAM |-> "NV_ENC_LOCK_BITSTREAM_VER",
   NV_ENC_PIC_PARAMS |-> "NV_ENC_PIC_PARAMS_VER"]

\* C13: every parameter structure the provider receives carries, in its
\* version field, the version constant of its own type.
C13_VersionStamping ==
  \A p \in last.params : p.version = VersionOf[p.struct]

\* C14: after Encoder::initialize has returned, Ok or Err, the caller's
\* InitParams is field for field what it was before the call, whatever the
\* provider wrote into the structure it was handed.
C14_InitParamsUnchanged ==
  (last.op = "initialize" /\ last.kind \in {"Ok", "Err"})
    => last.initAfter = last.init

\* the provider changed the structure it was handed, and the caller's
\* InitParams is as before
C14_Witness ==
  /\ last.op = "initialize"
  /\ last.calls[1].invoked
  /\ last.kind = "Ok"
  /\ last.written # last.init
  /\ last.initAfter = last.init

\* C17: whenever Encoder::initialize hands the provider an InitParams whose
\* encodeConfig was set by InitParamsBuilder::preset_config, the PresetConfig
\* it points into is still alive.
C17_PresetConfigAlive ==
  (/\ last.op = "initialize"
   /\ last.calls[1].invoked
   /\ last.init.encodeConfig # "null")
    => last.cfgLive

\* C15: in supported_formats every integer that is the code of a BufferFormat
\* variant comes back as that variant (the variant survives the trip through
\* its integer), and every other integer comes back as Undefined; the call
\* does not fail because of an integer it does not know.
C15_BufferFormatMapping ==
  (last.op = "supported_formats" /\ last.kind = "Ok")
    => /\ Len(last.list) = Len(last.raw)
       /\ \A i \in 1..Len(last.raw) :
            /\ \A v \in BufferFormat :
                 last.raw[i] = BufferFormatDiscriminant[v] => last.list[i] = v
            /\ (\A v \in BufferFormat : last.raw[i] # BufferFormatDiscriminant[v])
                 => last.list[i] = "Undefined"

\* the provider listed an integer with high bits that is no variant's code,
\* and the call returned Undefined for it
C15_Witness ==
  /\ last.op = "supported_formats"
  /\ last.kind = "Ok"
  /\ Len(last.raw) = 1
  /\ last.raw[1] = [hi |-> 1, lo |-> 1]
  /\ last.list[1] = "Undefined"

\* C16: encode on an InputBuffer that is locked and not yet unlocked returns
\* an Err (it neither succeeds nor crashes); whenever encode returns Ok, the
\* submitted input buffer was not locked when it was submitted.  (encode leaves
\* the provider's lock state as it was, so the state after it shows the lock
\* at submission.)
C16_EncodeRejectsLockedInput ==
  /\ (last.op = "encode" /\ ProvBufOf(last.input.ptr).locked) => last.kind = "Err"
  /\ (last.op = "encode" /\ last.kind = "Ok") => ~ProvBufOf(last.input.ptr).locked

\* encode was called on its own session with an input buffer still locked,
\* reached the provider, and came back as an Err
C16_Witness ==
  /\ last.op = "encode"
  /\ ProvOwns(enc[last.s].encoder, last.input.ptr, "in")
  /\ ProvOwns(enc[last.s].encoder, last.output.ptr, "out")
  /\ ProvBufOf(last.input.ptr).locked
  /\ last.calls[1].invoked
  /\ last.kind = "Err"

\* C18: rendering an Error through its Display implementation, as the drop of
\* an Encoder does when destroy fails, finishes and produces a message: it
\* does not re-enter itself until the stack is used up.
C18_DisplayTerminates ==
  (last.op = "drop" /\ last.err # "None")
    => last.fmt # "StackOverflow"

\* the count entry point and the fetch entry point of each two-phase query
CountEntryOf ==
  [support_codec |-> "nvEncGetEncodeGUIDCount",
   supported_presets |-> "nvEncGetEncodePresetCount",
   supported_formats |-> "nvEncGetInputFormatCount"]

FetchEntryOf ==
  [support_codec |-> "nvEncGetEncodeGUIDs",
   supported_presets |-> "nvEncGetEncodePresetGUIDs",
   supported_formats |-> "nvEncGetInputFormats"]

\* C19: a two-phase query makes the count call first and the fetch call, if
\* at all, second and only after the count call succeeded; the capacity of the
\* fetch call is the count the count call returned; when a call fails, the
\* query returns that call's Error and no list; no entry point is invoked twice.
C19_FailFastEnumeration ==
  last.op \in QueryNames =>
    LET n == Len(last.calls) IN
    /\ n \in {1, 2}
    /\ last.calls[1].entry = CountEntryOf[last.op]
    /\ last.calls[1].kind = "Err" => n = 1
    /\ n = 2 => /\ last.calls[1].kind = "Ok"
                /\ last.calls[2].entry = FetchEntryOf[last.op]
                /\ last.cap = last.count
    /\ last.calls[n].kind = "Err"
         => /\ last.kind = "Err"
            /\ last.err = last.calls[n].err
            /\ last.list = <<>>
            /\ last.len = 0

\* the count call reported a count above zero, the fetch call reached the
\* provider and failed, and the query returned its Error without a list
C19_Witness ==
  /\ last.op \in QueryNames
  /\ Len(last.calls) = 2
  /\ last.count > 0
  /\ last.calls[2].invoked
  /\ last.kind = "Err"
  /\ last.list = <<>>

\* C20: Encoder::new resolves the function table first; when that fails the
\* open-session call is not made; when either step fails the caller gets
\* that Error, no Encoder exists and destroy is never invoked for the
\* attempt; on success the Encoder holds the handle the provider wrote.
C20_FailedOpenLeavesNothing ==
  /\ \A s \in Sessions : enc[s].state = "none" => destroyCalls[s] = 0
  /\ last.op = "new" =>
       /\ last.status # Success
            => (last.calls = <<>> /\ last.kind = "Err"
                /\ last.err = ExpectedError(last.status))
       /\ (last.calls # <<>> /\ ~Done(last.calls[1]))
            => (last.kind = "Err" /\ last.err = last.calls[1].err)
       /\ last.kind = "Err" => enc[last.s].state = "none"
       /\ last.kind = "Ok"
            => /\ Done(last.calls[1])
               /\ enc[last.s].state = "live"
               /\ enc[last.s].encoder = last.handle

\* the table was resolved, the open-session call reached the provider and
\* failed, and no Encoder exists
C20_Witness ==
  /\ last.op = "new"
  /\ last.calls # <<>>
  /\ last.calls[1].invoked
  /\ last.calls[1].status # Success
  /\ last.kind = "Err"
  /\ enc[last.s].state = "none"
  /\ destroyCalls[last.s] = 0

====
